---- MODULE Spec2Model ----
(***************************************************************************)
(* A model of the ingestion core of neo4j-runway:                          *)
(*   - DataFramePackage.from_file and its helpers (_get_file_type,         *)
(*     _get_columns, _load_file) in utils/dataframe_loader.py,             *)
(*   - user_input_safe_construct / UserInput in inputs/user_input.py,      *)
(*   - the Table.discovery accessor in utils/data/table.py.                *)
(*                                                                         *)
(* Strings that the code takes apart (paths, lines of a delimited file)    *)
(* are sequences of atoms: a path is <<"tests", "/", "pets", ".csv">>, a   *)
(* header line is <<"id", ",", "name">>.  A field of a delimited line, and *)
(* hence a column name, is the sequence of atoms between two delimiters.   *)
(***************************************************************************)
EXTENDS Naturals, Sequences, FiniteSets

VARIABLES
    disk,       \* the data set stored on disk (as .csv text and as .json)
    cfg,        \* contents of the caller's reusable read_file_config dict
    cfg_orig,   \* contents that dict had when the caller created it
    pc,         \* "idle" or "returned": position of the from_file caller
    call,       \* arguments of the from_file call that just returned
    result,     \* what that call did: outcome, error, container, effects
    ui_pc,      \* position of the user_input_safe_construct caller
    ui_call,    \* arguments of the last user_input_safe_construct call
    ui_result,  \* outcome of that call
    heap,       \* DiscoveryContent objects: id -> their discovery field
    table,      \* the Table object: its discovery_content reference
    t_op        \* the last operation on the Table and what it returned

vars == <<disk, cfg, cfg_orig, pc, call, result,
          ui_pc, ui_call, ui_result, heap, table, t_op>>

loaderVars == <<disk, cfg, cfg_orig, pc, call, result>>
uiVars     == <<ui_pc, ui_call, ui_result>>
tableVars  == <<heap, table, t_op>>

(***************************************************************************)
(* Bounds of the model.                                                    *)
(***************************************************************************)
MaxCols == 3    \* columns of the data set on disk
MaxRows == 2    \* data rows of the data set on disk
MaxKeys == 2    \* keys of a column contract (column_descriptions)
MaxAllowed == 2 \* entries of the allowed_columns list
MaxObjs == 2    \* DiscoveryContent objects on the heap

(***************************************************************************)
(* Generic helpers on sequences (Python str / list primitives).            *)
(***************************************************************************)
Range(s) == {s[i] : i \in DOMAIN s}

\* x in s, for a list or a string of atoms
In(x, s) == \E i \in DOMAIN s : s[i] = x

\* str.endswith(suffix), the suffix being one atom
EndsWith(path, suffix) == Len(path) > 0 /\ path[Len(path)] = suffix

FirstIndex(x, s) == CHOOSE i \in DOMAIN s : s[i] = x /\ \A j \in 1..(i-1) : s[j] # x

\* str.split(sep) / one line through csv.reader(delimiter=sep)
RECURSIVE Split(_, _)
Split(s, sep) ==
    IF ~In(sep, s) THEN <<s>>
    ELSE LET i == FirstIndex(sep, s)
         IN  <<SubSeq(s, 1, i - 1)>> \o Split(SubSeq(s, i + 1, Len(s)), sep)

\* sep.join(pieces)
RECURSIVE Join(_, _)
Join(pieces, sep) ==
    IF pieces = <<>> THEN <<>>
    ELSE IF Len(pieces) = 1 THEN pieces[1]
    ELSE pieces[1] \o <<sep>> \o Join(Tail(pieces), sep)

\* sequences without repetition over S, of length 0..n
RECURSIVE Perms(_, _)
Perms(S, n) ==
    IF n = 0 THEN {<<>>}
    ELSE LET shorter == Perms(S, n - 1)
         IN  shorter \cup {p \o <<x>> : <<p, x>> \in
                             {<<q, y>> \in shorter \X S : ~In(y, q)}}

Min(a, b) == IF a < b THEN a ELSE b

(***************************************************************************)
(* Python dicts with string keys are functions on a finite set of keys.    *)
(***************************************************************************)
EmptyDict == [k \in {} |-> TRUE]
Has(d, k) == k \in DOMAIN d
IsEmptyDict(d) == DOMAIN d = {}
DictSet(d, k, v) == [x \in (DOMAIN d) \cup {k} |-> IF x = k THEN v ELSE d[x]]
DictDel(d, k) == [x \in (DOMAIN d) \ {k} |-> d[x]]

(***************************************************************************)
(* The files.  One data set is on disk, once as delimited text (every      *)
(* path ending in .csv) and once as a JSON object of columns (every path   *)
(* ending in .json).  A zero-byte .csv file holds the empty data set, whose *)
(* JSON form is the object {}.                                             *)
(***************************************************************************)
AllNames == <<"id", "name", "pet_name", "age", "breed">>
Delims == {",", "|"}

Disks ==
    {[empty |-> TRUE, delim |-> ",", ncols |-> 0, nrows |-> 0]} \cup
    [empty : {FALSE}, delim : Delims,
     ncols : 1..Min(MaxCols, Len(AllNames)), nrows : 1..MaxRows]

\* the columns "id", "age" hold numbers, the others hold text
NumericNames == {"id", "age"}
Digits == {"1", "2"}
Cell(r, c) ==
    IF AllNames[c] \in NumericNames
    THEN (IF r % 2 = 1 THEN <<"1">> ELSE <<"2">>)
    ELSE (IF (r + c) % 2 = 0 THEN <<"x">> ELSE <<"y">>)

\* the data set as a table: ordered columns, ordered rows
DiskColumns(d) == [c \in 1..d.ncols |-> <<AllNames[c]>>]
DiskRows(d) == [r \in 1..d.nrows |-> [c \in 1..d.ncols |-> Cell(r, c)]]

\* the text of the .csv file: a sequence of lines
CsvText(d) ==
    IF d.empty THEN <<>>
    ELSE <<Join(DiskColumns(d), d.delim)>> \o
         [r \in 1..d.nrows |-> Join(DiskRows(d)[r], d.delim)]

\* the .json file: top-level keys in order, each with its list of values
JsonDoc(d) ==
    [keys |-> DiskColumns(d),
     vals |-> [c \in 1..d.ncols |-> [r \in 1..d.nrows |-> Cell(r, c)]]]

(***************************************************************************)
(* Outcomes.  An exception is a record naming its Python class, what it    *)
(* is about, and the value its message names (a path, a key).              *)
(***************************************************************************)
NoErr == [cls |-> "", what |-> "", about |-> <<>>]
Exc(cls, what, about) == [cls |-> cls, what |-> what, about |-> about]

NoDF == [columns |-> <<>>, rows |-> <<>>]
Ok(df) == [ok |-> TRUE, df |-> df, err |-> NoErr]
Fail(e) == [ok |-> FALSE, df |-> NoDF, err |-> e]

(***************************************************************************)
(* The pandas readers the loader calls, as far as the loader uses them.    *)
(* A DataFrame is its ordered column names and its ordered rows.           *)
(***************************************************************************)
CsvOptions == {"sep", "skipfooter", "header", "engine", "usecols"}
JsonOptions == {"orient"}

\* the positions of header whose names are in the set S, in file order
RECURSIVE Positions(_, _, _)
Positions(header, S, i) ==
    IF i > Len(header) THEN <<>>
    ELSE (IF header[i] \in S THEN <<i>> ELSE <<>>) \o Positions(header, S, i + 1)

\* the positions of the names in cols, in the order of cols
PositionsOf(header, cols) == [j \in DOMAIN cols |-> FirstIndex(cols[j], header)]

Project(df, idx) ==
    [columns |-> [j \in DOMAIN idx |-> df.columns[idx[j]]],
     rows    |-> [r \in DOMAIN df.rows |-> [j \in DOMAIN idx |-> df.rows[r][idx[j]]]]]

\* pd.read_csv(file_path, **opts) on the text of the file
read_csv(text, opts) ==
    IF \E k \in DOMAIN opts : k \notin CsvOptions
    THEN Fail(Exc("TypeError", "unexpected keyword argument", <<>>))
    ELSE IF text = <<>>
    THEN Fail(Exc("EmptyDataError", "no columns to parse from file", <<>>))
    ELSE
      LET sep    == IF Has(opts, "sep") THEN opts["sep"] ELSE ","
          header == Split(text[1], sep)
          body   == [r \in 1..(Len(text) - 1) |-> Split(text[r + 1], sep)]
          skip   == IF Has(opts, "skipfooter") THEN opts["skipfooter"] ELSE 0
          keep   == IF skip >= Len(body) THEN 0 ELSE Len(body) - skip
          full   == [columns |-> header, rows |-> SubSeq(body, 1, keep)]
      IN  IF ~Has(opts, "usecols") THEN Ok(full)
          ELSE IF \E j \in DOMAIN opts["usecols"] : ~In(opts["usecols"][j], header)
          THEN Fail(Exc("ValueError", "usecols do not match columns", <<>>))
          ELSE Ok(Project(full, Positions(header, Range(opts["usecols"]), 1)))

\* pd.read_json(file_path, **opts) on the document of the file
read_json(doc, opts) ==
    IF \E k \in DOMAIN opts : k \notin JsonOptions
    THEN Fail(Exc("TypeError", "unexpected keyword argument", <<>>))
    ELSE
      LET n == IF doc.keys = <<>> THEN 0 ELSE Len(doc.vals[1])
      IN  Ok([columns |-> doc.keys,
              rows    |-> [r \in 1..n |-> [c \in DOMAIN doc.keys |-> doc.vals[c][r]]]])

\* DataFrame.__getitem__ with a list of column names: df[cols]
GetItem(df, cols) ==
    IF \E j \in DOMAIN cols : ~In(cols[j], df.columns)
    THEN Fail(Exc("KeyError", "not in index", <<>>))
    ELSE Ok(Project(df, PositionsOf(df.columns, cols)))

\* dtype inference: a column is numeric when it has rows and all are numbers
IsNumber(field) == Len(field) = 1 /\ field[1] \in Digits
NumericColumns(df) ==
    {c \in DOMAIN df.columns :
        /\ df.rows # <<>>
        /\ \A r \in DOMAIN df.rows : IsNumber(df.rows[r][c])}
ObjectColumns(df) == (DOMAIN df.columns) \ NumericColumns(df)

(***************************************************************************)
(* utils/dataframe_loader.py                                               *)
(***************************************************************************)
UnsupportedFileType(file_path) ==
    Exc("ValueError", "Unable to parse file type from file path", file_path)

\* (mutant) the type is looked for anywhere in the path
_get_file_type_Anywhere(file_path) ==
    IF In(".csv", file_path) THEN [ok |-> TRUE, type |-> "csv", err |-> NoErr]
    ELSE IF In(".json", file_path) THEN [ok |-> TRUE, type |-> "json", err |-> NoErr]
    ELSE [ok |-> FALSE, type |-> "", err |-> UnsupportedFileType(file_path)]

\* _get_file_type: the type, or the exception, from the suffix alone
_get_file_type(file_path) ==
    IF EndsWith(file_path, ".csv") THEN [ok |-> TRUE, type |-> "csv", err |-> NoErr]
    ELSE IF EndsWith(file_path, ".json") THEN [ok |-> TRUE, type |-> "json", err |-> NoErr]
    ELSE [ok |-> FALSE, type |-> "", err |-> UnsupportedFileType(file_path)]

\* row[1:] of the first row the csv reader yields
HeaderFields(row) == Tail(row)

\* _get_columns: a list of columns, or None (the loop over the rows of a
\* file without rows ends and the function falls off its end), or an exception
_get_columns(d, file_path, sep) ==
    IF EndsWith(file_path, ".csv")
    THEN IF CsvText(d) = <<>>
         THEN [ok |-> TRUE, none |-> TRUE, cols |-> <<>>, err |-> NoErr]
         ELSE [ok |-> TRUE, none |-> FALSE,
               cols |-> HeaderFields(Split(CsvText(d)[1], sep)), err |-> NoErr]
    ELSE IF EndsWith(file_path, ".json")
    THEN [ok |-> TRUE, none |-> FALSE, cols |-> JsonDoc(d).keys, err |-> NoErr]
    ELSE [ok |-> FALSE, none |-> FALSE, cols |-> <<>>,
          err |-> UnsupportedFileType(file_path)]

\* _get_pandas_load_method
_get_pandas_load_method(file_type) ==
    IF file_type = "csv" THEN "read_csv"
    ELSE IF file_type = "json" THEN "read_json"
    ELSE "error"

\* _load_file: the parse, and what it leaves in the dict it was given
_load_file(d, file_path, method, read_file_config) ==
    IF IsEmptyDict(read_file_config)
    THEN [res |-> IF method = "read_json" THEN read_json(JsonDoc(d), EmptyDict)
                  ELSE read_csv(CsvText(d), EmptyDict),
          config |-> read_file_config]
    ELSE IF method = "read_json"
    THEN IF ~Has(read_file_config, "usecols")
         THEN [res |-> Fail(Exc("KeyError", "usecols", <<>>)),
               config |-> read_file_config]
         ELSE LET cols   == read_file_config["usecols"]
                  popped == DictDel(read_file_config, "usecols")
                  loaded == read_json(JsonDoc(d), popped)
              IN  [res |-> IF loaded.ok THEN GetItem(loaded.df, cols) ELSE loaded,
                   config |-> popped]
    ELSE [res |-> read_csv(CsvText(d), read_file_config),
          config |-> read_file_config]

\* (mutant) the probe is always made with the default separator
ProbeSep_NoSep(read_file_config) == ","

\* the separator from_file hands to _get_columns
ProbeSep(read_file_config) ==
    IF ~IsEmptyDict(read_file_config) /\ Has(read_file_config, "sep")
    THEN read_file_config["sep"]
    ELSE ","

\* the loop of from_file over the keys of column_descriptions: the first
\* exception raised, and the number of times the file was probed
RECURSIVE CheckKeys(_, _, _, _, _)
CheckKeys(d, file_path, keys, sep, i) ==
    IF i > Len(keys) THEN [err |-> NoErr, probes |-> Len(keys)]
    ELSE LET got == _get_columns(d, file_path, sep)
         IN  IF ~got.ok THEN [err |-> got.err, probes |-> i]
             ELSE IF got.none
             THEN [err |-> Exc("TypeError", "argument of type NoneType is not iterable",
                               <<>>),
                   probes |-> i]
             ELSE IF ~In(keys[i], got.cols)
             THEN [err |-> Exc("ValueError",
                               "column_descriptions key is not in the DataFrame columns",
                               keys[i]),
                   probes |-> i]
             ELSE CheckKeys(d, file_path, keys, sep, i + 1)

\* (mutant) with a name given, the last piece is not popped off the path
DeriveName_NoPop(file_path, name) ==
    IF In("/", file_path)
    THEN LET pieces == Split(file_path, "/")
         IN  [name     |-> IF name = <<>> THEN pieces[Len(pieces)] ELSE name,
              file_loc |-> IF name = <<>>
                           THEN Join(SubSeq(pieces, 1, Len(pieces) - 1), "/")
                           ELSE Join(pieces, "/")]
    ELSE [name |-> name, file_loc |-> <<>>]

\* lines 83-92 of from_file: name and file_loc from the path
DeriveName(file_path, name) ==
    IF In("/", file_path)
    THEN LET pieces == Split(file_path, "/")
         IN  [name     |-> IF name = <<>> THEN pieces[Len(pieces)] ELSE name,
              file_loc |-> Join(SubSeq(pieces, 1, Len(pieces) - 1), "/")]
    ELSE [name |-> name, file_loc |-> <<>>]

\* DataFramePackage._generate_dataframe_summaries: info(), describe() and
\* describe(include="object"); describe raises on a frame without columns,
\* and describe(include="object") on a frame without object columns
_generate_dataframe_summaries(df) ==
    IF df.columns = <<>>
    THEN [ok |-> FALSE,
          err |-> Exc("ValueError", "Cannot describe a DataFrame without columns", <<>>),
          df_info |-> <<>>, numeric |-> NoDF, categorical |-> NoDF]
    ELSE IF ObjectColumns(df) = {}
    THEN [ok |-> FALSE,
          err |-> Exc("ValueError", "No objects to concatenate", <<>>),
          df_info |-> <<>>, numeric |-> NoDF, categorical |-> NoDF]
    ELSE [ok |-> TRUE, err |-> NoErr,
          df_info |-> <<df.columns, Len(df.rows)>>,
          numeric |-> IF NumericColumns(df) = {}
                      THEN Project(df, Positions(df.columns, Range(df.columns), 1))
                      ELSE Project(df, Positions(df.columns,
                                   {df.columns[c] : c \in NumericColumns(df)}, 1)),
          categorical |-> Project(df, Positions(df.columns,
                                   {df.columns[c] : c \in ObjectColumns(df)}, 1))]

NoPackage ==
    [name |-> <<>>, file_loc |-> <<>>, dataframe |-> NoDF, column_descriptions |-> <<>>,
     df_info |-> <<>>, numeric_data_description |-> NoDF,
     categorical_data_description |-> NoDF]

\* what a from_file call reports: the container or the exception, the number
\* of probes and of _load_file calls, and the dict the call worked on
Outcome(ok, err, package, probes, loads, config) ==
    [ok |-> ok, err |-> err, package |-> package, probes |-> probes, loads |-> loads,
     config |-> config]

\* (mutant) a constructor that leaves the summaries to a later call
DataFramePackage_Lazy(file_loc, name, dataframe, column_descriptions, probes, config) ==
    Outcome(TRUE, NoErr,
            [name |-> name, file_loc |-> file_loc, dataframe |-> dataframe,
             column_descriptions |-> column_descriptions,
             df_info |-> <<>>,
             numeric_data_description |-> NoDF,
             categorical_data_description |-> NoDF],
            probes, 1, config)

\* DataFramePackage.__init__
DataFramePackage(file_loc, name, dataframe, column_descriptions, probes, config) ==
    LET sums == _generate_dataframe_summaries(dataframe)
    IN  IF ~sums.ok THEN Outcome(FALSE, sums.err, NoPackage, probes, 1, config)
        ELSE Outcome(TRUE, NoErr,
                     [name |-> name, file_loc |-> file_loc, dataframe |-> dataframe,
                      column_descriptions |-> column_descriptions,
                      df_info |-> sums.df_info,
                      numeric_data_description |-> sums.numeric,
                      categorical_data_description |-> sums.categorical],
                     probes, 1, config)

\* DataFramePackage.from_file.  arg is the dict passed as read_file_config
\* (the empty dict also stands for None: line 62 replaces both by a new dict)
from_file(d, file_path, column_descriptions, name, arg) ==
    LET read_file_config == arg
        ft == _get_file_type(file_path)
    IN  IF ~ft.ok THEN Outcome(FALSE, ft.err, NoPackage, 0, 0, read_file_config)
        ELSE
        LET chk == IF column_descriptions # <<>>
                   THEN CheckKeys(d, file_path, column_descriptions,
                                  ProbeSep(read_file_config), 1)
                   ELSE [err |-> NoErr, probes |-> 0]
        IN  IF chk.err # NoErr
            THEN Outcome(FALSE, chk.err, NoPackage, chk.probes, 0, read_file_config)
            ELSE
            LET cfg1   == IF column_descriptions # <<>>
                          THEN DictSet(read_file_config, "usecols", column_descriptions)
                          ELSE read_file_config
                nm     == DeriveName(file_path, name)
                loaded == _load_file(d, file_path, _get_pandas_load_method(ft.type), cfg1)
            IN  IF ~loaded.res.ok
                THEN Outcome(FALSE, loaded.res.err, NoPackage, chk.probes, 1, loaded.config)
                ELSE DataFramePackage(nm.file_loc, nm.name, loaded.res.df,
                                      column_descriptions, chk.probes, loaded.config)

(***************************************************************************)
(* The callers of from_file.  A caller keeps one read_file_config dict and *)
(* passes, call by call, either no dict (None) or that dict.               *)
(***************************************************************************)
Paths ==
    { <<"pets", ".csv">>,
      <<"tests", "/", "pets", ".csv">>,
      <<"tests", "/", "resources", "/", "pets", ".json">>,
      <<"tests", "/", "pets", ".csv", ".txt">> }

GivenNames == { <<>>, <<"mine">> }

\* the keys callers put in contracts: column names and a name no file has
KeyPool == { <<"id">>, <<"name">>, <<"pet_name">>, <<"wrong_column">> }

\* column_descriptions, as the ordered keys of the dict (<<>>: None or {})
Contracts == Perms(KeyPool, MaxKeys)

InitConfigs ==
    { EmptyDict,
      [sep |-> "|"],
      [sep |-> ","],
      [sep |-> "|", skipfooter |-> 1, header |-> 0, engine |-> "python"],
      [orient |-> "columns"],
      [usecols |-> << <<"name">> >>] }

Modes == {"none", "shared"}

NoCall ==
    [file_path |-> <<>>, column_descriptions |-> <<>>, name |-> <<>>,
     mode |-> "none", arg |-> EmptyDict]
NoResult == Outcome(FALSE, NoErr, NoPackage, 0, 0, EmptyDict)

LoaderInit ==
    /\ disk \in Disks
    /\ cfg_orig \in InitConfigs
    /\ cfg = cfg_orig
    /\ pc = "idle"
    /\ call = NoCall
    /\ result = NoResult

LoaderIdle ==
    /\ disk = [empty |-> TRUE, delim |-> ",", ncols |-> 0, nrows |-> 0]
    /\ cfg_orig = EmptyDict
    /\ cfg = EmptyDict
    /\ pc = "idle"
    /\ call = NoCall
    /\ result = NoResult

\* the dict a call in the given mode passes as read_file_config
ArgOf(mode) == IF mode = "shared" THEN cfg ELSE EmptyDict

\* one call DataFramePackage.from_file(file_path, column_descriptions=..., name=...,
\* read_file_config=...), from its first line to its return or its exception
FromFile(file_path, column_descriptions, name, mode) ==
    /\ pc = "idle"
    /\ LET arg == ArgOf(mode)
           out == from_file(disk, file_path, column_descriptions, name, arg)
       IN  /\ call' = [file_path |-> file_path,
                       column_descriptions |-> column_descriptions,
                       name |-> name, mode |-> mode, arg |-> arg]
           /\ result' = out
           \* line 62: an empty dict (or None) is replaced by a new one, any
           \* other dict is the caller's own object and keeps what the call did
           /\ cfg' = IF mode = "shared" /\ ~IsEmptyDict(arg) THEN out.config ELSE cfg
    /\ pc' = "returned"
    /\ UNCHANGED <<disk, cfg_orig>>
    /\ UNCHANGED <<uiVars, tableVars>>

\* the caller drops the container or the exception and is ready to call again
Discard ==
    /\ pc = "returned"
    /\ pc' = "idle"
    /\ call' = NoCall
    /\ result' = NoResult
    /\ UNCHANGED <<disk, cfg, cfg_orig>>
    /\ UNCHANGED <<uiVars, tableVars>>

(***************************************************************************)
(* inputs/user_input.py.  A value of the untrusted dict is a string or     *)
(* something else (the dict is a Dict[str, Any]); dicts are functions.     *)
(***************************************************************************)
Str(v) == [t |-> "str", v |-> v]
NonStr == [t |-> "int", v |-> "5"]
IsStr(x) == x.t = "str"

UIValues == {Str(""), Str("text"), NonStr}
UIKeys == {"general_description", "name", "pet_name", "wrong_column"}
UnsafeInputs == UNION {[K -> UIValues] : K \in SUBSET UIKeys}
AllowedLists == Perms({"name", "pet_name", "general_description"}, MaxAllowed)

NoGeneralDescription ==
    "user_input should include key:value pair {general_description: ...} for best results."
NoColumns == "No columns detected in user input. Defaulting to all columns."
EmptyDescriptions == "Empty column_descriptions dictionary is not recommended."

NoUserInput == [general_description |-> Str(""), column_descriptions |-> EmptyDict]
NoUiErr == [cls |-> "", what |-> "", diff |-> {}, allowed |-> <<>>]
UiOutcome(ok, err, user_input, warnings, unsafe_after) ==
    [ok |-> ok, err |-> err, user_input |-> user_input, warnings |-> warnings,
     unsafe_after |-> unsafe_after]

\* UserInput(general_description=..., column_descriptions=...): the pydantic
\* model checks that both fields hold strings; its validator warns on {}
UserInput(general_description, column_descriptions, warnings, unsafe_after) ==
    IF ~IsStr(general_description)
       \/ \E k \in DOMAIN column_descriptions : ~IsStr(column_descriptions[k])
    THEN UiOutcome(FALSE,
                   [cls |-> "ValidationError", what |-> "Input should be a valid string",
                    diff |-> {}, allowed |-> <<>>],
                   NoUserInput, warnings, unsafe_after)
    ELSE UiOutcome(TRUE, NoUiErr,
                   [general_description |-> general_description,
                    column_descriptions |-> column_descriptions],
                   warnings \cup (IF IsEmptyDict(column_descriptions)
                                  THEN {EmptyDescriptions} ELSE {}),
                   unsafe_after)

\* UserInput.allowed_columns: list(self.column_descriptions.keys()), as the
\* set of those keys
UserInput_allowed_columns(user_input) == DOMAIN user_input.column_descriptions

\* (mutant) the declared keys are not compared with the allowed list
UnmatchedColumns_Skipped(keys, allowed_columns) == {}

\* (mutant) the difference taken the other way round
UnmatchedColumns_Reversed(keys, allowed_columns) == Range(allowed_columns) \ keys

\* line 100: the declared keys that are not in the allowed list
UnmatchedColumns(keys, allowed_columns) == keys \ Range(allowed_columns)

\* (mutant) no default: the empty mapping is passed on
DefaultDescriptions_Empty(allowed_columns) == EmptyDict

\* line 112: {k: "" for k in allowed_columns}
DefaultDescriptions(allowed_columns) == [k \in Range(allowed_columns) |-> Str("")]

\* user_input_safe_construct(unsafe_user_input, allowed_columns)
user_input_safe_construct(unsafe_user_input, allowed_columns) ==
    LET general_description ==
            IF Has(unsafe_user_input, "general_description")
            THEN unsafe_user_input["general_description"] ELSE Str("")
        rest == DictDel(unsafe_user_input, "general_description")
        w1   == IF Has(unsafe_user_input, "general_description")
                THEN {} ELSE {NoGeneralDescription}
        diff == UnmatchedColumns(DOMAIN rest, allowed_columns)
    IN  IF Len(allowed_columns) > 0 /\ Cardinality(DOMAIN rest) > 0 /\ diff # {}
        THEN UiOutcome(FALSE,
                       [cls |-> "ValueError",
                        what |-> "declared columns not found in allowed_columns",
                        diff |-> diff, allowed |-> allowed_columns],
                       NoUserInput, w1, rest)
        ELSE UserInput(general_description,
                       IF IsEmptyDict(rest) THEN DefaultDescriptions(allowed_columns)
                       ELSE rest,
                       w1 \cup (IF IsEmptyDict(rest) THEN {NoColumns} ELSE {}),
                       rest)

NoUiCall == [unsafe_user_input |-> EmptyDict, allowed_columns |-> <<>>]
NoUiResult == UiOutcome(FALSE, NoUiErr, NoUserInput, {}, EmptyDict)

\* one call of user_input_safe_construct, to its return or its exception
SafeConstruct(unsafe_user_input, allowed_columns) ==
    /\ ui_pc = "idle"
    /\ ui_call' = [unsafe_user_input |-> unsafe_user_input,
                   allowed_columns |-> allowed_columns]
    /\ ui_result' = user_input_safe_construct(unsafe_user_input, allowed_columns)
    /\ ui_pc' = "returned"
    /\ UNCHANGED <<loaderVars, tableVars>>

UiDiscard ==
    /\ ui_pc = "returned"
    /\ ui_pc' = "idle"
    /\ ui_call' = NoUiCall
    /\ ui_result' = NoUiResult
    /\ UNCHANGED <<loaderVars, tableVars>>

(***************************************************************************)
(* utils/data/table.py: the discovery accessor of Table.  The heap holds   *)
(* the DiscoveryContent objects (their discovery field); the Table refers  *)
(* to one of them or to None.                                              *)
(***************************************************************************)
None == 0
ObjIds == 1..MaxObjs
Texts == {"", "a", "b"}

NoOp == [op |-> "none", value |-> "", ret |-> "", err |-> "",
         pre_heap |-> <<>>, pre_ref |-> None]

\* Table.discovery (getter)
discovery_get(h, t) ==
    IF t.discovery_content = None THEN "" ELSE h[t.discovery_content]

\* (mutant) a write with nothing attached is silently dropped
discovery_set_Silent(h, t, value) ==
    IF t.discovery_content = None
    THEN [err |-> "", heap |-> h]
    ELSE [err |-> "", heap |-> [h EXCEPT ![t.discovery_content] = value]]

\* Table.discovery (setter): the heap after it, or the assertion's failure
discovery_set(h, t, value) ==
    IF t.discovery_content = None
    THEN [err |-> "AssertionError", heap |-> h]
    ELSE [err |-> "", heap |-> [h EXCEPT ![t.discovery_content] = value]]

\* x = table.discovery
ReadDiscovery ==
    /\ t_op' = [op |-> "read", value |-> "", ret |-> discovery_get(heap, table),
                err |-> "", pre_heap |-> heap, pre_ref |-> table.discovery_content]
    /\ UNCHANGED <<heap, table>>
    /\ UNCHANGED <<loaderVars, uiVars>>

\* table.discovery = value
WriteDiscovery(value) ==
    /\ LET done == discovery_set(heap, table, value)
       IN  /\ heap' = done.heap
           /\ t_op' = [op |-> "write", value |-> value, ret |-> "", err |-> done.err,
                       pre_heap |-> heap, pre_ref |-> table.discovery_content]
    /\ UNCHANGED table
    /\ UNCHANGED <<loaderVars, uiVars>>

\* table.discovery_content = ref (a DiscoveryContent object, or None)
AssignContent(ref) ==
    /\ table' = [table EXCEPT !.discovery_content = ref]
    /\ t_op' = [op |-> "assign", value |-> "", ret |-> "", err |-> "",
                pre_heap |-> heap, pre_ref |-> table.discovery_content]
    /\ UNCHANGED heap
    /\ UNCHANGED <<loaderVars, uiVars>>

UiIdle ==
    /\ ui_pc = "idle"
    /\ ui_call = NoUiCall
    /\ ui_result = NoUiResult

\* Table.__init__ with discovery_content=None (the default)
TableIdle ==
    /\ heap = [o \in ObjIds |-> ""]
    /\ table = [discovery_content |-> None]
    /\ t_op = NoOp

\* Table.__init__ with any discovery_content
TableInit ==
    /\ heap \in [ObjIds -> Texts]
    /\ table \in [discovery_content : {None} \cup ObjIds]
    /\ t_op = NoOp

Init == LoaderInit /\ UiIdle /\ TableIdle

Next ==
    \/ \E file_path \in Paths, column_descriptions \in Contracts,
          name \in GivenNames, mode \in Modes :
          FromFile(file_path, column_descriptions, name, mode)
    \/ Discard

Spec == Init /\ [][Next]_vars

UiInit == LoaderIdle /\ UiIdle /\ TableIdle

UiNext ==
    \/ \E unsafe_user_input \in UnsafeInputs, allowed_columns \in AllowedLists :
          SafeConstruct(unsafe_user_input, allowed_columns)
    \/ UiDiscard

SpecUserInput == UiInit /\ [][UiNext]_vars

TInit == LoaderIdle /\ UiIdle /\ TableInit

TNext ==
    \/ ReadDiscovery
    \/ \E value \in Texts : WriteDiscovery(value)
    \/ \E ref \in {None} \cup ObjIds : AssignContent(ref)

SpecTable == TInit /\ [][TNext]_vars

(***************************************************************************)
(* Properties of DataFramePackage.from_file.                               *)
(***************************************************************************)
Supported(file_path) == EndsWith(file_path, ".csv") \/ EndsWith(file_path, ".json")

\* the separator the caller asked for (a comma unless the options name one)
CallSep == IF Has(call.arg, "sep") THEN call.arg["sep"] ELSE ","

\* the real columns of the file the call names: what an unrestricted parse
\* of it (with the caller's separator) has as columns
RealColumns ==
    IF EndsWith(call.file_path, ".csv")
    THEN LET ref == read_csv(CsvText(disk), [sep |-> CallSep])
         IN  IF ref.ok THEN Range(ref.df.columns) ELSE {}
    ELSE IF EndsWith(call.file_path, ".json")
    THEN Range(JsonDoc(disk).keys)
    ELSE {}

ContractMismatch == "column_descriptions key is not in the DataFrame columns"

Returned == pc = "returned"
Keys == Range(call.column_descriptions)

\* C1: a from_file call on a .csv or .json file whose column contract has a
\* key that is not a real column of the file fails with the contract-mismatch
\* ValueError, never invokes _load_file and constructs no container.
C1_MismatchBeforeParse ==
    (Returned /\ Supported(call.file_path) /\ Keys \ RealColumns # {})
        => /\ ~result.ok
           /\ result.err.cls = "ValueError"
           /\ result.err.what = ContractMismatch
           /\ result.loads = 0
           /\ result.package = NoPackage

\* C2: a from_file call (no parser configuration) with a non-empty contract
\* whose keys are all real columns of the file, the first header field of a
\* CSV included, succeeds, and the loaded table's column set is the key set.
C2_SubsetContractLoads ==
    (Returned /\ Supported(call.file_path) /\ IsEmptyDict(call.arg)
        /\ Keys # {} /\ Keys \subseteq RealColumns)
        => /\ result.ok
           /\ Range(result.package.dataframe.columns) = Keys

\* C3: for a .csv file with a header, from_file with no contract and no
\* parser configuration returns the table of the unrestricted default parse.
C3_PlainLoadIsReferenceParse ==
    (Returned /\ EndsWith(call.file_path, ".csv") /\ ~disk.empty
        /\ call.column_descriptions = <<>> /\ IsEmptyDict(call.arg))
        => /\ result.ok
           /\ result.package.dataframe = read_csv(CsvText(disk), EmptyDict).df

\* the columns the Column Probe returns for the file of the call
Probed == _get_columns(disk, call.file_path, CallSep)

\* the call's contract is built from exactly the probed columns
ContractFromProbe ==
    /\ Returned /\ Supported(call.file_path)
    /\ Probed.ok /\ ~Probed.none
    /\ call.column_descriptions = Probed.cols

\* C4: a from_file call whose contract keys are exactly the columns that
\* _get_columns returns for the file never fails on contract validation.
C4_ProbeRoundTrip ==
    ContractFromProbe
        => /\ result.err.what # ContractMismatch
           /\ result.err.cls # "TypeError" \/ result.loads = 1
           /\ result.probes = Len(call.column_descriptions)

C4_Witness ==
    /\ ContractFromProbe
    /\ Len(call.column_descriptions) = 2
    /\ CallSep = "|" /\ disk.delim = "|"
    /\ result.ok

\* C5: the file type is decided by the suffix alone (.csv, .json); a call
\* with any other path fails with the unsupported-file-type error naming the
\* path before the file is probed or parsed, and no other call fails so.
C5_SuffixDecidesType ==
    Returned =>
        /\ ~Supported(call.file_path)
              => /\ ~result.ok
                 /\ result.err = UnsupportedFileType(call.file_path)
                 /\ result.probes = 0 /\ result.loads = 0
                 /\ result.package = NoPackage
        /\ Supported(call.file_path)
              => result.err.what # "Unable to parse file type from file path"

C5_Witness ==
    /\ Returned
    /\ call.file_path = <<"tests", "/", "pets", ".csv", ".txt">>
    /\ call.column_descriptions # <<>>
    /\ result.err = UnsupportedFileType(<<"tests", "/", "pets", ".csv", ".txt">>)

\* the same call made on the .csv file holding the same data
CsvTwin ==
    from_file(disk, <<"tests", "/", "pets", ".csv">>, call.column_descriptions,
              call.name, call.arg)

\* C6: for the same data stored as .csv (comma separated) and as .json and
\* the same contract, in any key order, the table loaded from the .json file
\* equals the table loaded from the .csv file: columns and rows, in order.
C6_CrossFormat ==
    (Returned /\ EndsWith(call.file_path, ".json") /\ disk.delim = ","
        /\ call.column_descriptions # <<>> /\ IsEmptyDict(call.arg)
        /\ result.ok /\ CsvTwin.ok)
        => result.package.dataframe = CsvTwin.package.dataframe

\* the reference parse of the file with the caller's options, restricted to
\* the contract's columns (in file order) when there is a contract
Restricted(df) ==
    IF call.column_descriptions = <<>> THEN df
    ELSE Project(df, Positions(df.columns, Keys, 1))
ReferenceParse ==
    IF EndsWith(call.file_path, ".csv")
    THEN IF call.column_descriptions = <<>> THEN read_csv(CsvText(disk), call.arg)
         ELSE read_csv(CsvText(disk),
                       DictSet(call.arg, "usecols", call.column_descriptions))
    ELSE LET full == read_json(JsonDoc(disk), call.arg)
         IN  IF full.ok /\ Keys \subseteq Range(full.df.columns)
             THEN Ok(Restricted(full.df)) ELSE full

\* C7: with a parser configuration, the loaded table is the reference parse
\* with exactly those options, restricted to the contract's columns if there
\* is a contract and unrestricted otherwise; in particular a .json load with
\* a configuration and no contract returns all top-level keys as columns.
C7_ConfiguredLoadIsReferenceParse ==
    (Returned /\ Supported(call.file_path) /\ ~IsEmptyDict(call.arg)
        /\ Keys \subseteq RealColumns /\ ReferenceParse.ok)
        => /\ result.ok
           /\ result.package.dataframe = ReferenceParse.df

(***************************************************************************)
(* Properties of user_input_safe_construct.                                *)
(***************************************************************************)
UiReturned == ui_pc = "returned"

\* the keys of the call's mapping other than general_description
RemainingKeys == (DOMAIN ui_call.unsafe_user_input) \ {"general_description"}
AllowedSet == Range(ui_call.allowed_columns)

\* the call failed with the ValueError naming the offending keys and the list
FailedOnUnmatched ==
    /\ ~ui_result.ok
    /\ ui_result.err.cls = "ValueError"
    /\ ui_result.err.diff = RemainingKeys \ AllowedSet
    /\ ui_result.err.allowed = ui_call.allowed_columns
    /\ ui_result.user_input = NoUserInput

\* C8: with a non-empty allowed list and a non-empty remaining mapping, the
\* call fails with the ValueError naming the offending keys and the allowed
\* list exactly when some remaining key is not allowed, and then constructs
\* no UserInput.
C8_UnmatchedColumnsRejected ==
    (UiReturned /\ ui_call.allowed_columns # <<>> /\ RemainingKeys # {})
        => /\ FailedOnUnmatched <=> ~(RemainingKeys \subseteq AllowedSet)
           /\ ui_result.err.cls = "ValueError" => FailedOnUnmatched

C8_Witness ==
    /\ UiReturned
    /\ ui_call.allowed_columns = <<"name", "pet_name">>
    /\ RemainingKeys = {"wrong_column", "name"}
    /\ FailedOnUnmatched
    /\ ui_result.err.diff = {"wrong_column"}

\* what the call extracts as general_description
Extracted ==
    IF "general_description" \in DOMAIN ui_call.unsafe_user_input
    THEN ui_call.unsafe_user_input["general_description"] ELSE Str("")

\* the call returned the default: every allowed column with description ""
ReturnedDefault ==
    /\ ui_result.ok
    /\ NoColumns \in ui_result.warnings
    /\ DOMAIN ui_result.user_input.column_descriptions = AllowedSet
    /\ \A k \in AllowedSet : ui_result.user_input.column_descriptions[k] = Str("")
    /\ ui_result.user_input.general_description = Extracted

C10_DiscoveryAccessor ==
    /\ t_op.op = "read"
          => /\ t_op.ret = (IF t_op.pre_ref = None THEN "" ELSE t_op.pre_heap[t_op.pre_ref])
             /\ heap = t_op.pre_heap /\ table.discovery_content = t_op.pre_ref
    /\ (t_op.op = "write" /\ t_op.pre_ref # None)
          => /\ t_op.err = ""
             /\ heap = [t_op.pre_heap EXCEPT ![t_op.pre_ref] = t_op.value]
             /\ table.discovery_content = t_op.pre_ref
             /\ discovery_get(heap, table) = t_op.value
    /\ (t_op.op = "write" /\ t_op.pre_ref = None)
          => /\ t_op.err = "AssertionError"
             /\ heap = t_op.pre_heap /\ table.discovery_content = None
             /\ discovery_get(heap, table) = ""

C10_Witness ==
    /\ t_op.op = "write" /\ t_op.pre_ref = None /\ t_op.value = "a"
    /\ t_op.err = "AssertionError"
    /\ \E o \in ObjIds : heap[o] = "b"

(***************************************************************************)
(* Further properties of DataFramePackage.from_file.                       *)
(***************************************************************************)
\* the position of the last path separator of the call's path
LastSeparator ==
    CHOOSE i \in DOMAIN call.file_path :
        /\ call.file_path[i] = "/"
        /\ \A j \in (i + 1)..Len(call.file_path) : call.file_path[j] # "/"

\* C11: if the path has a separator, source_location (file_loc) is what
\* precedes the last separator and name is the given name if non-empty, else
\* the final path segment; without a separator, file_loc is empty and name
\* is the given name, empty if none was given.
C11_NameAndLocation ==
    (Returned /\ result.ok)
        => IF In("/", call.file_path)
           THEN /\ result.package.file_loc = SubSeq(call.file_path, 1, LastSeparator - 1)
                /\ result.package.name =
                       (IF call.name # <<>> THEN call.name
                        ELSE SubSeq(call.file_path, LastSeparator + 1, Len(call.file_path)))
           ELSE /\ result.package.file_loc = <<>>
                /\ result.package.name = call.name

C11_Witness ==
    /\ Returned /\ result.ok
    /\ call.file_path = <<"tests", "/", "resources", "/", "pets", ".json">>
    /\ call.name = <<"mine">>
    /\ result.package.file_loc = <<"tests", "/", "resources">>
    /\ result.package.name = <<"mine">>

\* the contract keys that the probe of the call's file does not return
AbsentKeys == Keys \ Range(Probed.cols)

\* C12: when several contract keys are absent from the probed columns, the
\* contract-mismatch error of from_file names every absent key, not only the
\* first one met.
C12_MismatchNamesEveryAbsentKey ==
    (Returned /\ ~result.ok /\ result.err.what = ContractMismatch
              /\ Cardinality(AbsentKeys) >= 2)
        => \A k \in AbsentKeys : k = result.err.about

\* the values of column c of a table
ColumnValues(df, c) ==
    LET i == CHOOSE i \in DOMAIN df.columns : df.columns[i] = c
    IN  [r \in DOMAIN df.rows |-> df.rows[r][i]]

\* a summary that describes columns of df, by the values df has in them
DescribesTable(summary, df) ==
    /\ summary.columns # <<>>
    /\ Range(summary.columns) \subseteq Range(df.columns)
    /\ Len(summary.rows) = Len(df.rows)
    /\ \A c \in Range(summary.columns) : ColumnValues(summary, c) = ColumnValues(df, c)

\* the call just made, made once more with the same file and argument values
CallAgain ==
    from_file(disk, call.file_path, call.column_descriptions, call.name, call.arg)

CallWithFreshCopy ==
    from_file(disk, call.file_path, call.column_descriptions, call.name, cfg_orig)

\* C14: from_file leaves the caller's read_file_config dict unchanged, so in
\* any sequence of calls that reuse one dict each call's result is the result
\* of the same call made with a fresh copy of the original dict.
C14_ConfigLeftUnchanged ==
    (Returned /\ call.mode = "shared")
        => /\ cfg = cfg_orig
           /\ result.ok = CallWithFreshCopy.ok
           /\ result.err = CallWithFreshCopy.err
           /\ result.package = CallWithFreshCopy.package

(***************************************************************************)
(* A further property of user_input_safe_construct.                        *)
(***************************************************************************)
\* C15: after a successful user_input_safe_construct call with a non-empty
\* allowed-column list, the returned UserInput's allowed_columns are the keys
\* of its column_descriptions, all of them in the supplied allowed list, and
\* general_description is among them only if it is in the allowed list.
C15_AllowedColumnsWithinAllowed ==
    (UiReturned /\ ui_result.ok /\ ui_call.allowed_columns # <<>>)
        => LET columns == UserInput_allowed_columns(ui_result.user_input)
           IN  /\ columns = DOMAIN ui_result.user_input.column_descriptions
               /\ columns \subseteq AllowedSet
               /\ columns = (IF RemainingKeys = {} THEN AllowedSet ELSE RemainingKeys)
               /\ "general_description" \in columns
                      => "general_description" \in AllowedSet

C15_Witness ==
    /\ UiReturned /\ ui_result.ok
    /\ ui_call.allowed_columns = <<"name", "pet_name">>
    /\ DOMAIN ui_call.unsafe_user_input = {"general_description", "name"}
    /\ UserInput_allowed_columns(ui_result.user_input) = {"name"}

====
